---- MODULE Spec2Model ----
(***************************************************************************)
(* Entropy Engine starter kit: the resilient TCP sample source             *)
(* (ee_mvp.py, TCPSource and coerce_value), the sliding-window entropy     *)
(* engines (ee/stream.py stream_entropy, ee_mvp.py EntropyAccountant),     *)
(* the synthetic generator (test_stream_gen.py Generator), and the         *)
(* WebSocket stream server (ws/ee_stream_server.py).                       *)
(*                                                                         *)
(* Numbers.  Bytes are one-character strings, a line or token is a         *)
(* sequence of them.  Sample values decoded from the wire are fixed point  *)
(* in thousandths (Milli).  Entropies are fixed point in ten-thousandths   *)
(* (HScale) with a second limb that counts the 1e-12 regulariser of        *)
(* stream_entropy, which is far below the resolution of the first limb.    *)
(***************************************************************************)
EXTENDS Integers, Sequences, FiniteSets, TLC

\* ------------------------------------------------------------------ bounds

\* lines the server may send in one run of the transport model
MaxLines == 2
\* lines the server may send in the runs that are checked for liveness
FewLines == 1
\* newline-terminated lines that may be in flight on the connection at once
MaxWireLines == 1
\* calls of TCPSource.next() in one run
MaxNext == 2
\* the engines are checked for bins in 2..MaxBins and window in 2..MaxWindow
MaxBins == 3
MaxWindow == 3
\* samples fed to an engine (ticks) in one run
MaxTicks == 4
\* the samples lie on a grid of XDen steps over [0,1]
XDen == 2
\* the module-level random generator has RngMod states
RngMod == 16
\* next_for_module is called with steps 0..MaxStep, MaxPolls times in a run
MaxStep == 3
MaxPolls == 2
\* stream() is followed until the clock reads MaxWall seconds
MaxWall == 40
\* seconds that may pass outside the generator's sleeps
MaxIdle == 1
\* what the clock reads at the start of a process that started late
LateStart == 1000
\* messages the stream server broadcasts in one run
MaxMsgs == 3

\* --------------------------------------------------------- program constants

\* deque(maxlen=1024) of TCPSource._q
QMaxLen == 1024
\* fixed-point scale of sample values (1.0 = Milli)
Milli == 1000
\* fixed-point scale of entropies and their derivatives (1.0 = HScale)
HScale == 10000
\* eps = 1e-12 of stream_entropy, in the 1e-15 units of a Num's second limb
EpsUnits == 1000
\* doubles in [8, 16) are spaced 2^-49 apart, those from 16 on more widely
FloatFine == 16
\* RING = collections.deque(maxlen=200)
RingMaxLen == 200

\* =========================================================================
\*  State
\* =========================================================================

\* ---- TCPSource and the server it talks to
VARIABLES
  sock,       \* self._sock: 0 is None, else the socket object's id
  buf,        \* self._buf: the partial-line byte buffer
  q,          \* self._q: tokens, each with the order of its arrival
  stop,       \* self._stop (threading.Event)
  rpc,        \* where the reader thread is in _reader
  s,          \* the reader's local s: the socket it created last (0: none)
  open,       \* ids of the sockets opened by the source and not yet closed
  srv,        \* the server: "down" (refusing), "up" (accepting), or
              \* "stable" (accepting, and available for good)
  cstate,     \* the connection: "none", "open", "fin" (server closed), "rst"
  conn,       \* the client socket the connection belongs to (0: none)
  wire,       \* bytes sent by the server and not yet received
  linesLeft,  \* lines the server may still send
  srvLines,   \* the lines the server chooses from
  tpc,        \* the tick thread: "idle", or in next() at "check" or "pop"
  ret,        \* what the latest next() returned, and from which token
  nret,       \* number of next() calls that have returned
  raised,     \* next() raised
  arrived,    \* number of tokens the reader has enqueued so far
  prevMaxSeq, \* newest arrival returned by any next() before the latest one
  retSilent,  \* the latest next() returned after the server had gone silent
  cpc,        \* where the closing thread is in close()
  owed        \* non-blank lines sent on the connection, not yet tokens

tcpVars == <<sock, buf, q, stop, rpc, s, open, srv, cstate, conn, wire,
             linesLeft, srvLines, tpc, ret, nret, raised, arrived, prevMaxSeq,
             retSilent, cpc, owed>>

\* ---- the entropy engines
VARIABLES
  cfg,        \* bins, window, ema (emaNum/emaDen), dt (1/dtInv seconds)
  se_counts,  \* stream_entropy: counts
  se_ring,    \* stream_entropy: ring (clamped samples, thousandths)
  se_Hs,      \* stream_entropy: H_s, None before the first tick
  se_Y,       \* stream_entropy: Y of the previous tick
  se_ticks,   \* stream_entropy: samples consumed so far (t = ticks * dt)
  se_out,     \* stream_entropy: the dict yielded last (H, Y, Z)
  ea_window,  \* EntropyAccountant: window (samples, thousandths)
  ea_last,    \* EntropyAccountant: last_Ht
  ea_prev,    \* EntropyAccountant: prev_Ht
  ea_prev2,   \* EntropyAccountant: prev2_Ht
  ea_ticks,   \* EntropyAccountant: update() calls so far
  ea_out,     \* EntropyAccountant: the (Ht, Y, Z) returned last
  ea_new,     \* the last EntropyAccountant(...) call: arguments and outcome
  se_new      \* the last stream_entropy(...) call: arguments and outcome

engVars == <<cfg, se_counts, se_ring, se_Hs, se_Y, se_ticks, se_out,
             ea_window, ea_last, ea_prev, ea_prev2, ea_ticks, ea_out,
             ea_new, se_new>>

\* ---- the generator
VARIABLES
  gen,     \* the Generator objects of the process, by instance
  rng,     \* state of the module-level random generator, shared by all
  wall,    \* time.perf_counter()
  idle,    \* seconds that passed outside any sleep
  polls,   \* next_for_module calls so far
  insts,   \* the instances this run may construct
  solo     \* per instance: the same construction and the same polls, made
           \* alone in a process of its own whose clock read 0 at the start

genVars == <<gen, rng, wall, idle, polls, insts, solo>>

\* ---- the WebSocket stream server
VARIABLES
  CLIENTS,  \* CLIENTS: the registered connections
  RING,     \* RING: the messages kept for warm-up (a message is its number)
  nsent,    \* broadcast() calls so far
  fan,      \* connections the running broadcast() has still to send to
  hpc,      \* per connection, where its handler() is
  todo,     \* per connection, what is left of list(RING) in the replay loop
  got       \* per connection, the messages written to it, in order

wsVars == <<CLIENTS, RING, nsent, fan, hpc, todo, got>>

\* =========================================================================
\*  Bytes, lines and coerce_value
\* =========================================================================

NL == "\n"

\* the one element of a singleton set (binds a computed value once)
Only(S) == CHOOSE x \in S : TRUE

DigitSet == {"0", "1", "2", "3", "4", "5", "6", "7", "8", "9"}

IsDigit(c) == c \in DigitSet

\* ord(ch) of the characters of the modelled alphabet
OrdMap ==
  (" " :> 32) @@ ("\"" :> 34) @@ ("-" :> 45) @@ ("." :> 46) @@
  ("0" :> 48) @@ ("1" :> 49) @@ ("2" :> 50) @@ ("3" :> 51) @@ ("4" :> 52) @@
  ("5" :> 53) @@ ("6" :> 54) @@ ("7" :> 55) @@ ("8" :> 56) @@ ("9" :> 57) @@
  (":" :> 58) @@ ("a" :> 97) @@ ("e" :> 101) @@ ("l" :> 108) @@ ("u" :> 117) @@
  ("v" :> 118) @@ ("x" :> 120) @@ ("{" :> 123) @@ ("}" :> 125)

Ord(c) == OrdMap[c]

DigitVal(c) == Ord(c) - Ord("0")

\* str.strip() strips these (the only whitespace of the modelled alphabet)
IsSpace(c) == c = " "

\* the lines a server sends: a bare decimal number, the generator's
\* --fmt json envelope, a word, and a blank line
LineNum == <<"2", ".", "5">>
LineJson == <<"{", "\"", "v", "a", "l", "u", "e", "\"", ":", " ", "3", "}">>
LineWord == <<"x">>
LineBlank == <<" ">>

Lines == {LineNum, LineJson, LineWord, LineBlank}

\* str.strip()
Strip(t) ==
  LET keep == {i \in 1..Len(t) : ~IsSpace(t[i])}
  IN  IF keep = {} THEN <<>>
      ELSE SubSeq(t, CHOOSE i \in keep : \A j \in keep : i <= j,
                     CHOOSE i \in keep : \A j \in keep : i >= j)

\* ---- float(t) on the modelled alphabet: [sign] mantissa [e [sign] digits].
\* The alphabet has none of the letters of "inf"/"nan" and no underscore.

AllDigits(t) == t # <<>> /\ \A i \in 1..Len(t) : IsDigit(t[i])

Count(t, c) == Cardinality({i \in 1..Len(t) : t[i] = c})

IsMantissa(t) ==
  /\ \A i \in 1..Len(t) : IsDigit(t[i]) \/ t[i] = "."
  /\ Count(t, ".") <= 1
  /\ \E i \in 1..Len(t) : IsDigit(t[i])

Unsigned(t) == IF t # <<>> /\ t[1] = "-" THEN Tail(t) ELSE t

\* the first position of c in t, 0 if there is none
FirstPos(t, c) ==
  LET at == {i \in 1..Len(t) : t[i] = c}
  IN  IF at = {} THEN 0 ELSE CHOOSE i \in at : \A j \in at : i <= j

\* what precedes / follows the exponent mark in an unsigned token
MantPart(u) == Only({IF e = 0 THEN u ELSE SubSeq(u, 1, e - 1) : e \in {FirstPos(u, "e")}})

ExpPart(u) == Only({IF e = 0 THEN <<>> ELSE SubSeq(u, e + 1, Len(u)) : e \in {FirstPos(u, "e")}})

IsFloat(t) ==
  \E u \in {Unsigned(t)} : \E m \in {MantPart(u)} : \E x \in {ExpPart(u)} :
    /\ IsMantissa(m)
    /\ FirstPos(u, "e") # 0 => \E d \in {Unsigned(x)} : AllDigits(d)

\* the number a string of digits denotes
DigitsVal(t) ==
  LET RECURSIVE upto(_)
      upto(k) == IF k = 0 THEN 0 ELSE 10 * upto(k - 1) + DigitVal(t[k])
  IN  upto(Len(t))

Pow10(n) ==
  LET RECURSIVE pw(_)
      pw(k) == IF k <= 0 THEN 1 ELSE 10 * pw(k - 1)
  IN  pw(n)

\* the mantissa in thousandths (digits past the third decimal are dropped)
MantMilli(m) ==
  LET d    == FirstPos(m, ".")
      ip   == IF d = 0 THEN m ELSE SubSeq(m, 1, d - 1)
      fp   == IF d = 0 THEN <<>> ELSE SubSeq(m, d + 1, Len(m))
      fp3  == SubSeq(fp, 1, IF Len(fp) < 3 THEN Len(fp) ELSE 3)
  IN  DigitsVal(ip) * Milli + DigitsVal(fp3) * Pow10(3 - Len(fp3))

FloatMilli(t) ==
  Only({ Only({ Only({
      (IF t[1] = "-" THEN -1 ELSE 1) *
        (IF x # <<>> /\ x[1] = "-" THEN m \div Pow10(n) ELSE m * Pow10(n))
      : n \in {DigitsVal(Unsigned(x))} })
      : m \in {MantMilli(MantPart(u))} })
      : u \in {Unsigned(t)}, x \in {ExpPart(Unsigned(t))} })

\* sum of ord(ch) % 128 over the token
OrdSum(t) ==
  LET RECURSIVE upto(_)
      upto(k) == IF k = 0 THEN 0 ELSE upto(k - 1) + (Ord(t[k]) % 128)
  IN  upto(Len(t))

\* a value a source hands to the tick: None, or a number in thousandths
NoneVal == [some |-> FALSE, val |-> 0]

Some(v) == [some |-> TRUE, val |-> v]

\* coerce_value(token), the token being a str already
CoerceStripped(t) ==
  IF t = <<>> THEN NoneVal
  ELSE IF IsFloat(t) THEN Some(FloatMilli(t))
  ELSE Some((OrdSum(t) * Milli) \div (127 * Len(t)))

coerce_value(token) == Only({CoerceStripped(t) : t \in {Strip(token)}})

\* =========================================================================
\*  TCPSource: reader thread, next(), close(), and the server it talks to
\* =========================================================================

NoRet == [some |-> FALSE, val |-> 0, seq |-> 0, tok |-> <<>>]

\* TCPSource.__init__: the reader thread is started at once
InitTcpWith(budget, menu) ==
  /\ sock = 0 /\ buf = <<>> /\ q = <<>> /\ stop = FALSE
  /\ rpc = "loop" /\ s = 0 /\ open = {}
  /\ srv \in {"up", "down"}
  /\ cstate = "none" /\ conn = 0 /\ wire = <<>>
  /\ linesLeft = budget /\ srvLines = menu
  /\ tpc = "idle" /\ ret = NoRet /\ nret = 0 /\ raised = FALSE
  /\ arrived = 0 /\ prevMaxSeq = 0
  /\ retSilent = FALSE
  /\ cpc = "idle" /\ owed = 0

\* ---- helpers

Max(a, b) == IF a >= b THEN a ELSE b

HasLine(b) == \E i \in 1..Len(b) : b[i] = NL

\* line, rest = b.split(b"\n", 1)
SplitLine(b) == LET i == FirstPos(b, NL)
                IN  [line |-> SubSeq(b, 1, i - 1), rest |-> SubSeq(b, i + 1, Len(b))]

\* deque.append with maxlen: a full deque drops its oldest entry
QAppend(dq, e) == IF Len(dq) >= QMaxLen THEN Append(Tail(dq), e) ELSE Append(dq, e)

\* socket.socket(): a fresh object; ids of closed sockets are reused
NewSock == CHOOSE k \in 1..(Cardinality(open) + 1) : k \notin open

\* closing the client's end of the connection ends the connection
ConnAfterClose(k) ==
  /\ cstate' = IF conn = k THEN "none" ELSE cstate
  /\ conn' = IF conn = k THEN 0 ELSE conn
  /\ wire' = IF conn = k THEN <<>> ELSE wire
  /\ owed' = IF conn = k THEN 0 ELSE owed

\* where the reader goes after the except branch (line 137) and after a
\* server-side close (lines 121-122): in both it sleeps and loops again
AfterError == "sleepErr"

AfterEof == "sleepClosed"

Backoff == {"sleepErr", "sleepClosed"}

\* how much of the bytes in flight one recv returns: all of them, or the
\* first half (so that a line arrives in up to several pieces)
ChunkSizes(w) == {Len(w)} \cup {n \in {Len(w) \div 2} : n >= 1}

\* ---- the reader thread, _reader

\* while not self._stop.is_set(): ... if self._sock is None:
R_Loop ==
  /\ rpc = "loop"
  /\ IF stop
       THEN \* the thread ends; its frame and the local s go away, and a socket
            \* referenced by nothing else is closed by its finalizer
            /\ rpc' = "done"
            /\ open' = IF s # sock THEN open \ {s} ELSE open
            /\ s' = 0
       ELSE /\ rpc' = IF sock = 0 THEN "create" ELSE "recv"
            /\ UNCHANGED <<open, s>>
  /\ UNCHANGED <<sock, buf, q, stop, srv, cstate, conn, wire, linesLeft, srvLines,
                 tpc, ret, nret, raised, arrived, prevMaxSeq, retSilent, cpc, owed>>
  /\ UNCHANGED <<engVars, genVars, wsVars>>

\* s = socket.socket(...); s.settimeout(...): rebinding s drops the socket a
\* failed connect left behind (never stored in self._sock)
R_Create ==
  /\ rpc = "create"
  /\ LET k == NewSock IN
       /\ s' = k
       /\ open' = (open \ {s}) \cup {k}
  /\ rpc' = "connect"
  /\ UNCHANGED <<sock, buf, q, stop, srv, cstate, conn, wire, linesLeft, srvLines,
                 tpc, ret, nret, raised, arrived, prevMaxSeq, retSilent, cpc, owed>>
  /\ UNCHANGED <<engVars, genVars, wsVars>>

\* s.connect(...) succeeds; s.settimeout(None)
R_ConnectOk ==
  /\ rpc = "connect" /\ srv # "down" /\ cstate = "none"
  /\ cstate' = "open" /\ conn' = s /\ wire' = <<>>
  /\ rpc' = "store"
  /\ UNCHANGED <<sock, buf, q, stop, s, open, srv, linesLeft, srvLines,
                 tpc, ret, nret, raised, arrived, prevMaxSeq, retSilent, cpc, owed>>
  /\ UNCHANGED <<engVars, genVars, wsVars>>

\* s.connect(...) raises (refused, timed out): except branch with
\* self._sock None, so nothing is closed there
R_ConnectFail ==
  /\ rpc = "connect" /\ srv = "down"
  /\ sock' = 0
  /\ rpc' = AfterError
  /\ UNCHANGED <<buf, q, stop, s, open, srv, cstate, conn, wire, linesLeft, srvLines,
                 tpc, ret, nret, raised, arrived, prevMaxSeq, retSilent, cpc, owed>>
  /\ UNCHANGED <<engVars, genVars, wsVars>>

\* self._sock = s
R_Store ==
  /\ rpc = "store"
  /\ sock' = s
  /\ rpc' = "recv"
  /\ UNCHANGED <<buf, q, stop, s, open, srv, cstate, conn, wire, linesLeft, srvLines,
                 tpc, ret, nret, raised, arrived, prevMaxSeq, retSilent, cpc, owed>>
  /\ UNCHANGED <<engVars, genVars, wsVars>>

\* chunk = self._sock.recv(bufsize) returns some of the bytes in flight;
\* self._buf += chunk
R_RecvData ==
  /\ rpc = "recv" /\ sock \in open /\ conn = sock
  /\ cstate \in {"open", "fin"} /\ wire # <<>>
  /\ \E n \in ChunkSizes(wire) :
       /\ buf' = buf \o SubSeq(wire, 1, n)
       /\ wire' = SubSeq(wire, n + 1, Len(wire))
  /\ rpc' = "split"
  /\ UNCHANGED <<sock, q, stop, s, open, srv, cstate, conn, linesLeft, srvLines,
                 tpc, ret, nret, raised, arrived, prevMaxSeq, retSilent, cpc, owed>>
  /\ UNCHANGED <<engVars, genVars, wsVars>>

\* recv returns b"": server closed; close, forget the socket, sleep, continue
R_RecvEof ==
  /\ rpc = "recv" /\ sock \in open /\ conn = sock
  /\ cstate = "fin" /\ wire = <<>>
  /\ open' = open \ {sock}
  /\ ConnAfterClose(sock)
  /\ sock' = 0
  /\ rpc' = AfterEof
  /\ UNCHANGED <<buf, q, stop, s, srv, linesLeft, srvLines,
                 tpc, ret, nret, raised, arrived, prevMaxSeq, retSilent, cpc>>
  /\ UNCHANGED <<engVars, genVars, wsVars>>

\* recv raises (connection reset, or the socket was closed by close()):
\* except branch closes self._sock, forgets it and sleeps
R_RecvErr ==
  /\ rpc = "recv"
  /\ sock \notin open \/ (conn = sock /\ cstate = "rst")
  /\ open' = open \ {sock}
  /\ ConnAfterClose(sock)
  /\ sock' = 0
  /\ rpc' = AfterError
  /\ UNCHANGED <<buf, q, stop, s, srv, linesLeft, srvLines,
                 tpc, ret, nret, raised, arrived, prevMaxSeq, retSilent, cpc>>
  /\ UNCHANGED <<engVars, genVars, wsVars>>

\* one round of: while b"\n" in self._buf: split, decode, strip, append
R_Split ==
  /\ rpc = "split"
  /\ IF HasLine(buf)
       THEN \E sp \in {SplitLine(buf)} : \E token \in {Strip(sp.line)} :
                /\ buf' = sp.rest
                /\ rpc' = "split"
                /\ IF token # <<>>
                     THEN /\ q' = QAppend(q, [tok |-> token, seq |-> arrived + 1])
                          /\ arrived' = arrived + 1
                          /\ owed' = Max(0, owed - 1)
                     ELSE UNCHANGED <<q, arrived, owed>>
       ELSE /\ rpc' = "loop"
            /\ UNCHANGED <<buf, q, arrived, owed>>
  /\ UNCHANGED <<sock, stop, s, open, srv, cstate, conn, wire, linesLeft, srvLines,
                 tpc, ret, nret, raised, prevMaxSeq, retSilent, cpc>>
  /\ UNCHANGED <<engVars, genVars, wsVars>>

\* time.sleep(0.25) / time.sleep(0.5) is over
R_Wake ==
  /\ rpc \in Backoff
  /\ rpc' = "loop"
  /\ UNCHANGED <<sock, buf, q, stop, s, open, srv, cstate, conn, wire,
                 linesLeft, srvLines, tpc, ret, nret, raised, arrived, prevMaxSeq,
                 retSilent, cpc, owed>>
  /\ UNCHANGED <<engVars, genVars, wsVars>>

Reader == \/ R_Loop \/ R_Create \/ R_ConnectOk \/ R_ConnectFail \/ R_Store
          \/ R_RecvData \/ R_RecvEof \/ R_RecvErr \/ R_Split \/ R_Wake

\* ---- the tick thread: next()

\* the server has closed the connection and will send nothing more, and the
\* reader has turned everything it received into tokens
Silent ==
  /\ arrived >= 1
  /\ cstate = "fin" \/ (cstate = "none" /\ rpc = AfterEof)
  /\ wire = <<>> /\ linesLeft = 0
  /\ rpc # "split" /\ ~HasLine(buf)

\* a faulty next() that answers 0.0 when the queue is empty
NextDefaultZero == [some |-> TRUE, val |-> 0, seq |-> 0, tok |-> <<>>]

\* return None (line 143)
NextDefault == NoRet

\* token = self._q.pop()  # most recent
QPop(dq) == [e |-> dq[Len(dq)], rest |-> SubSeq(dq, 1, Len(dq) - 1)]

\* the tick calls self.source.next()
T_Call ==
  /\ tpc = "idle" /\ nret < MaxNext
  /\ tpc' = "check"
  /\ UNCHANGED <<sock, buf, q, stop, rpc, s, open, srv, cstate, conn, wire,
                 linesLeft, srvLines, ret, nret, raised, arrived, prevMaxSeq,
                 retSilent, cpc, owed>>
  /\ UNCHANGED <<engVars, genVars, wsVars>>

\* if self._q:
T_Check ==
  /\ tpc = "check"
  /\ IF q # <<>>
       THEN /\ tpc' = "pop"
            /\ UNCHANGED <<ret, nret, prevMaxSeq, retSilent>>
       ELSE /\ ret' = NextDefault
            /\ nret' = nret + 1
            /\ prevMaxSeq' = Max(prevMaxSeq, ret.seq)
            /\ retSilent' = Silent
            /\ tpc' = "idle"
  /\ UNCHANGED <<sock, buf, q, stop, rpc, s, open, srv, cstate, conn, wire,
                 linesLeft, srvLines, raised, arrived, cpc, owed>>
  /\ UNCHANGED <<engVars, genVars, wsVars>>

\* token = self._q.pop(); return coerce_value(token)
T_Pop ==
  /\ tpc = "pop"
  /\ tpc' = "idle"
  /\ IF q = <<>>
       THEN \* IndexError: pop from an empty deque
            /\ raised' = TRUE
            /\ UNCHANGED <<q, ret, nret, prevMaxSeq, retSilent>>
       ELSE \E p \in {QPop(q)} : \E v \in {coerce_value(p.e.tok)} :
                /\ q' = p.rest
                /\ ret' = [some |-> v.some, val |-> v.val, seq |-> p.e.seq,
                           tok |-> p.e.tok]
                /\ nret' = nret + 1
                /\ prevMaxSeq' = Max(prevMaxSeq, ret.seq)
                /\ retSilent' = Silent
                /\ UNCHANGED raised
  /\ UNCHANGED <<sock, buf, stop, rpc, s, open, srv, cstate, conn, wire,
                 linesLeft, srvLines, arrived, cpc, owed>>
  /\ UNCHANGED <<engVars, genVars, wsVars>>

\* the steps of a call of next() that is under way
InNext == T_Check \/ T_Pop

Tick == T_Call \/ InNext

\* ---- the closing thread: close()

\* self._stop.set()
C_Stop ==
  /\ cpc = "idle"
  /\ stop' = TRUE
  /\ cpc' = "check"
  /\ UNCHANGED <<sock, buf, q, rpc, s, open, srv, cstate, conn, wire,
                 linesLeft, srvLines, tpc, ret, nret, raised, arrived, prevMaxSeq,
                 retSilent, owed>>
  /\ UNCHANGED <<engVars, genVars, wsVars>>

\* if self._sock:
C_Check ==
  /\ cpc = "check"
  /\ cpc' = IF sock # 0 THEN "close" ELSE "done"
  /\ UNCHANGED <<sock, buf, q, stop, rpc, s, open, srv, cstate, conn, wire,
                 linesLeft, srvLines, tpc, ret, nret, raised, arrived, prevMaxSeq,
                 retSilent, owed>>
  /\ UNCHANGED <<engVars, genVars, wsVars>>

\* self._sock.close() (self._sock is read again: if the reader has set it
\* to None meanwhile the AttributeError is swallowed by except Exception)
C_Close ==
  /\ cpc = "close"
  /\ cpc' = "done"
  /\ IF sock # 0
       THEN /\ open' = open \ {sock}
            /\ ConnAfterClose(sock)
       ELSE UNCHANGED <<open, cstate, conn, wire, owed>>
  /\ UNCHANGED <<sock, buf, q, stop, rpc, s, srv,
                 linesLeft, srvLines, tpc, ret, nret, raised, arrived, prevMaxSeq,
                 retSilent>>
  /\ UNCHANGED <<engVars, genVars, wsVars>>

Closer == C_Stop \/ C_Check \/ C_Close

\* ---- the server (the environment of the transport)

NewLines(w) == Count(w, NL)

S_Up ==
  /\ srv = "down"
  /\ srv' = "up"
  /\ UNCHANGED <<sock, buf, q, stop, rpc, s, open, cstate, conn, wire,
                 linesLeft, srvLines, tpc, ret, nret, raised, arrived, prevMaxSeq,
                 retSilent, cpc, owed>>
  /\ UNCHANGED <<engVars, genVars, wsVars>>

S_Down ==
  /\ srv = "up"
  /\ srv' = "down"
  /\ UNCHANGED <<sock, buf, q, stop, rpc, s, open, cstate, conn, wire,
                 linesLeft, srvLines, tpc, ret, nret, raised, arrived, prevMaxSeq,
                 retSilent, cpc, owed>>
  /\ UNCHANGED <<engVars, genVars, wsVars>>

\* from here on the server accepts and never closes or resets a connection
S_Stabilise ==
  /\ srv # "stable"
  /\ srv' = "stable"
  /\ UNCHANGED <<sock, buf, q, stop, rpc, s, open, cstate, conn, wire,
                 linesLeft, srvLines, tpc, ret, nret, raised, arrived, prevMaxSeq,
                 retSilent, cpc, owed>>
  /\ UNCHANGED <<engVars, genVars, wsVars>>

\* conn.sendall(line + "\n")
S_Send ==
  /\ cstate = "open" /\ linesLeft > 0 /\ NewLines(wire) < MaxWireLines
  /\ \E l \in srvLines :
       /\ wire' = wire \o l \o <<NL>>
       /\ owed' = IF Strip(l) # <<>> THEN owed + 1 ELSE owed
  /\ linesLeft' = linesLeft - 1
  /\ UNCHANGED <<sock, buf, q, stop, rpc, s, open, srv, cstate, conn,
                 srvLines, tpc, ret, nret, raised, arrived, prevMaxSeq,
                 retSilent, cpc>>
  /\ UNCHANGED <<engVars, genVars, wsVars>>

\* conn.close(): the client reads what is in flight, then b""
S_Close ==
  /\ cstate = "open" /\ srv # "stable"
  /\ cstate' = "fin"
  /\ UNCHANGED <<sock, buf, q, stop, rpc, s, open, srv, conn, wire,
                 linesLeft, srvLines, tpc, ret, nret, raised, arrived, prevMaxSeq,
                 retSilent, cpc, owed>>
  /\ UNCHANGED <<engVars, genVars, wsVars>>

\* the connection is reset: the client's next recv raises
S_Reset ==
  /\ cstate = "open" /\ srv # "stable"
  /\ cstate' = "rst"
  /\ wire' = <<>>
  /\ owed' = 0
  /\ UNCHANGED <<sock, buf, q, stop, rpc, s, open, srv, conn,
                 linesLeft, srvLines, tpc, ret, nret, raised, arrived, prevMaxSeq,
                 retSilent, cpc>>
  /\ UNCHANGED <<engVars, genVars, wsVars>>

Server == S_Up \/ S_Down \/ S_Stabilise \/ S_Send \/ S_Close \/ S_Reset

\* =========================================================================
\*  The entropy engines: stream_entropy (ee/stream.py) and
\*  EntropyAccountant (ee_mvp.py)
\* =========================================================================

\* A float of the engines is a pair: m in units of 1/HScale, and e in units
\* of 1e-15 for the terms the regulariser eps = 1e-12 adds, which never
\* reach the size of one unit of m.
Num(m, e) == [m |-> m, e |-> e]

Zero == Num(0, 0)

NAdd(a, b) == Num(a.m + b.m, a.e + b.e)

NSub(a, b) == Num(a.m - b.m, a.e - b.e)

\* a * k / d for integers k, d > 0
NScale(a, k, d) == Num((a.m * k) \div d, (a.e * k) \div d)

NIsZero(a) == a.m = 0 /\ a.e = 0

NLess(a, b) == a.m < b.m \/ (a.m = b.m /\ a.e < b.e)

NLeq(a, b) == ~NLess(b, a)

One == Num(HScale, 0)

\* an optional float: None, or a number
NoneH == [some |-> FALSE, m |-> 0, e |-> 0]

SomeH(a) == [some |-> TRUE, m |-> a.m, e |-> a.e]

\* math.log(n) in units of 1/HScale, for n = 1..8 (log(ab) = log(a) + log(b))
LnTab == <<0, 6931, 10986, 13862, 16094, 17917, 19459, 20793>>

Ln(n) == LnTab[n]

\* sum of the counts f[0] .. f[n-1] of a histogram
SumFn(f) ==
  LET RECURSIVE upto(_)
      upto(k) == IF k = 0 THEN 0 ELSE upto(k - 1) + f[k - 1]
  IN  upto(Cardinality(DOMAIN f))

\* N * ln(N) - sum c*ln(c): N times the Shannon entropy (nats) of counts
NShannon(counts, N) ==
  N * Ln(N) - SumFn([i \in DOMAIN counts |-> IF counts[i] > 0 THEN counts[i] * Ln(counts[i]) ELSE 0])

Occupied(counts) == Cardinality({i \in DOMAIN counts : counts[i] > 0})

\* the samples fed to the engines, in thousandths: a grid over [0,1] and one
\* step beyond either end
SampleVals == {n * (Milli \div XDen) : n \in -1..(XDen + 1)}

\* ema and dt go together: ema = 1.0 (no smoothing) with dt = 1.0, and the
\* defaults' ema = 0.2 with dt = 0.5
Smoothings ==
  {[emaNum |-> 1, emaDen |-> 1, dtInv |-> 1], [emaNum |-> 1, emaDen |-> 5, dtInv |-> 2]}

Configs ==
  {[bins |-> b, window |-> w, emaNum |-> m.emaNum, emaDen |-> m.emaDen, dtInv |-> m.dtInv]
     : b \in 2..MaxBins, w \in 2..MaxWindow, m \in Smoothings}

NoOut == [H |-> Zero, Y |-> Zero, Z |-> Zero]

\* the arguments tried on the two constructors, valid and not: bins, the
\* window (samples for stream_entropy, seconds for EntropyAccountant), ema
\* or alpha = emaNum/emaDen, dt = dtNum/dtInv seconds
AskedSmoothings ==
  {[emaNum |-> 1, emaDen |-> 1, dtNum |-> 1, dtInv |-> 1],
   [emaNum |-> 1, emaDen |-> 5, dtNum |-> 1, dtInv |-> 2],
   [emaNum |-> 0, emaDen |-> 1, dtNum |-> 1, dtInv |-> 1],
   [emaNum |-> 6, emaDen |-> 5, dtNum |-> 1, dtInv |-> 1],
   [emaNum |-> 1, emaDen |-> 1, dtNum |-> 0, dtInv |-> 1]}

AskedConfigs ==
  {[bins |-> b, window |-> w, emaNum |-> m.emaNum, emaDen |-> m.emaDen,
    dtNum |-> m.dtNum, dtInv |-> m.dtInv]
     : b \in 1..2, w \in 1..2, m \in AskedSmoothings}

NoAsk == [bins |-> 0, window |-> 0, emaNum |-> 0, emaDen |-> 1, dtNum |-> 0, dtInv |-> 1]

\* no constructor call made yet
NoBuild == [pc |-> "none", asked |-> NoAsk, bins |-> 0, window_n |-> 0]

InitEng ==
  /\ cfg \in Configs
  /\ se_counts = [i \in 0..(cfg.bins - 1) |-> 0]
  /\ se_ring = <<>> /\ se_Hs = NoneH /\ se_Y = Zero /\ se_ticks = 0
  /\ se_out = NoOut
  /\ ea_window = <<>> /\ ea_last = NoneH /\ ea_prev = NoneH /\ ea_prev2 = NoneH
  /\ ea_ticks = 0 /\ ea_out = NoOut
  /\ ea_new = NoBuild /\ se_new = NoBuild

\* ---- stream_entropy

\* if x < 0.0: x = 0.0 elif x > 1.0: x = 1.0
SE_Clamp(x) == IF x < 0 THEN 0 ELSE IF x > Milli THEN Milli ELSE x

\* bi = int(x * inv); if bi >= bins: bi = bins - 1
SE_Bin(x, bins) ==
  LET bi == (x * bins) \div Milli IN IF bi >= bins THEN bins - 1 ELSE bi

\* a faulty index of the evicted sample: int(old * inv), not clamped
SE_OldBinUnclamped(old, bins) == (old * bins) \div Milli

\* obi = int(min(bins - 1, max(0, int(old * inv))))
SE_OldBin(old, bins) ==
  LET b == (old * bins) \div Milli
      lo == IF b < 0 THEN 0 ELSE b
  IN  IF lo > bins - 1 THEN bins - 1 ELSE lo

\* a faulty eviction that leaves the histogram as it is
SE_DecrementForgotten(counts, obi) == counts

\* counts[obi] -= 1
SE_Decrement(counts, obi) == [counts EXCEPT ![obi] = @ - 1]

\* deque(maxlen=window).append after the explicit popleft
PushWindow(w, x, maxlen) ==
  IF Len(w) >= maxlen THEN Append(Tail(w), x) ELSE Append(w, x)

\* H = -(p * np.log(p + eps)).sum() / logB: each occupied bin contributes
\* p*log(p) + eps (to first order in eps), an empty bin 0 * log(eps) = 0
SE_Entropy(counts, bins) ==
  Only({ IF N <= 0 THEN Zero
         ELSE Num((NShannon(counts, N) * HScale) \div (N * Ln(bins)),
                  0 - ((Occupied(counts) * EpsUnits * HScale) \div Ln(bins)))
         : N \in {SumFn(counts)} })

\* H_s = H if H_prev is None else ema*H + (1-ema)*H_prev
Ema(h, prev, c) ==
  IF ~prev.some THEN h
  ELSE NScale(NAdd(NScale(h, c.emaNum, 1), NScale(prev, c.emaDen - c.emaNum, 1)),
              1, c.emaDen)

\* Y = 0.0 if H_prev is None else (H_s - H_prev) / dt
SE_Y(hs, prev, c) == IF ~prev.some THEN Zero ELSE NScale(NSub(hs, prev), c.dtInv, 1)

\* Z = 0.0 if H_prev is None else (Y - Y_prev) / dt
SE_Z(y, yprev, prev, c) == IF ~prev.some THEN Zero ELSE NScale(NSub(y, yprev), c.dtInv, 1)

\* one iteration of "for x in sample_iter", up to the yield
SE_Tick(x0) ==
  \E x \in {SE_Clamp(x0)}, full \in {Len(se_ring) = cfg.window} :
  \E c1 \in {IF full THEN SE_Decrement(se_counts, SE_OldBin(Head(se_ring), cfg.bins))
             ELSE se_counts} :
  \E counts \in {[c1 EXCEPT ![SE_Bin(x, cfg.bins)] = @ + 1]} :
  \E H \in {SE_Entropy(counts, cfg.bins)} :
  \E hs \in {Ema(H, se_Hs, cfg)} :
  \E y \in {SE_Y(hs, se_Hs, cfg)} :
  \E z \in {SE_Z(y, se_Y, se_Hs, cfg)} :
      /\ se_ring' = Append(IF full THEN Tail(se_ring) ELSE se_ring, x)
      /\ se_counts' = counts
      /\ se_Hs' = SomeH(hs)
      /\ se_Y' = y
      /\ se_ticks' = se_ticks + 1
      /\ se_out' = [H |-> hs, Y |-> y, Z |-> z]

\* ---- EntropyAccountant.update

Min(a, b) == IF a <= b THEN a ELSE b

SeqMin(w) == CHOOSE v \in {w[i] : i \in 1..Len(w)} : \A i \in 1..Len(w) : v <= w[i]

SeqMax(w) == CHOOSE v \in {w[i] : i \in 1..Len(w)} : \A i \in 1..Len(w) : v >= w[i]

\* the (vmin, vmax) handed to np.histogram: the window's range, or, when
\* that is a single value v, (min(0, v), max(1, v + 1e-9))
EA_Range(w) ==
  LET lo == SeqMin(w)
      hi == SeqMax(w)
  IN  IF lo = hi THEN [lo |-> Min(0, lo), hi |-> Max(Milli, hi)]
      ELSE [lo |-> lo, hi |-> hi]

\* np.histogram(arr, bins, range): equal-width bins, the last one closed
EA_Bin(x, r, bins) ==
  IF x >= r.hi THEN bins - 1 ELSE ((x - r.lo) * bins) \div (r.hi - r.lo)

EA_Counts(w, bins) ==
  Only({ [b \in 0..(bins - 1) |-> Cardinality({i \in 1..Len(w) : EA_Bin(w[i], r, bins) = b})]
         : r \in {EA_Range(w)} })

\* np.clip(v, 0.0, 1.0)
Clip01(a) == IF NLess(a, Zero) THEN Zero ELSE IF NLess(One, a) THEN One ELSE a

\* Htilde_raw (lines 184-201): H / log2(k), k the number of occupied bins
EA_Entropy(w, bins) ==
  IF Len(w) < 2 THEN Zero
  ELSE Only({ Only({ IF total <= 0 THEN Zero
                     ELSE IF Ln(k) <= 0 THEN Zero
                     ELSE Clip01(Num((NShannon(counts, total) * HScale) \div (total * Ln(k)), 0))
                     : total \in {SumFn(counts)}, k \in {Occupied(counts)} })
              : counts \in {EA_Counts(w, bins)} })

\* Y (lines 209-212)
EA_Y(ht, last, c) == IF last.some THEN NScale(NSub(ht, last), c.dtInv, 1) ELSE Zero

\* Z (lines 210-214)
EA_Z(ht, last, prev, c) ==
  IF prev.some /\ last.some
    THEN NScale(NAdd(NSub(ht, NScale(last, 2, 1)), prev), c.dtInv * c.dtInv, 1)
    ELSE Zero

\* a float that is not finite (nan, inf, -inf); val stands for its bits
NonFiniteVal == [some |-> TRUE, val |-> 0, nonfinite |-> TRUE]

\* a faulty test that takes every float
EA_AcceptsAnyFloat(x) == x.some

\* if x is not None and np.isfinite(x)
EA_Accepts(x) == x.some /\ "nonfinite" \notin DOMAIN x

\* update(x): x is None or a float
EA_UpdateBody(x) ==
  \E w \in {IF EA_Accepts(x) THEN PushWindow(ea_window, x.val, cfg.window) ELSE ea_window} :
  \E raw \in {EA_Entropy(w, cfg.bins)} :
  \E ht \in {Ema(raw, ea_last, cfg)} :
      /\ ea_window' = w
      /\ ea_prev2' = ea_prev
      /\ ea_prev' = ea_last
      /\ ea_last' = SomeH(ht)
      /\ ea_ticks' = ea_ticks + 1
      /\ ea_out' = [H |-> ht, Y |-> EA_Y(ht, ea_last, cfg), Z |-> EA_Z(ht, ea_last, ea_prev, cfg)]

\* ---- the engines driven by one sample sequence

\* both engines consume the next sample
Eng_Tick ==
  /\ se_ticks < MaxTicks /\ ea_ticks < MaxTicks
  /\ \E x \in SampleVals : SE_Tick(x) /\ EA_UpdateBody(Some(x))
  /\ UNCHANGED <<cfg, ea_new, se_new>>
  /\ UNCHANGED <<tcpVars, genVars, wsVars>>

\* the source had no value for this tick: ArrowUI._on_tick hands None to
\* EntropyAccountant.update; or the value it had is not a finite number
EA_UpdateNone ==
  /\ ea_ticks < MaxTicks
  /\ \E x \in {NoneVal, NonFiniteVal} : EA_UpdateBody(x)
  /\ UNCHANGED <<cfg, se_counts, se_ring, se_Hs, se_Y, se_ticks, se_out>>
  /\ UNCHANGED <<ea_new, se_new>>
  /\ UNCHANGED <<tcpVars, genVars, wsVars>>

\* ---- construction

\* the four asserts of stream_entropy (lines 37-40)
SE_Asserts(a) ==
  /\ a.bins >= 2
  /\ a.window >= 2
  /\ a.dtNum > 0
  /\ 0 < a.emaNum /\ a.emaNum <= a.emaDen

\* self.window_n = max(2, int(round(window_seconds / max(1e-6, dt))))
EA_WindowN(a) ==
  Max(2, IF a.dtNum <= 0 THEN a.window * 1000000
         ELSE (2 * a.window * a.dtInv + a.dtNum) \div (2 * a.dtNum))

\* EntropyAccountant.__init__: no argument is tested; bins and window_n are
\* raised to 2, dt and alpha are stored as given
EA_Init(a) ==
  [pc |-> "built", asked |-> a, bins |-> Max(2, a.bins), window_n |-> EA_WindowN(a)]

\* ent = EntropyAccountant(bins, dt, window_seconds, alpha)
EA_New ==
  /\ ea_new.pc = "none"
  /\ \E a \in AskedConfigs : ea_new' = EA_Init(a)
  /\ UNCHANGED <<cfg, se_new, se_counts, se_ring, se_Hs, se_Y, se_ticks, se_out>>
  /\ UNCHANGED <<ea_window, ea_last, ea_prev, ea_prev2, ea_ticks, ea_out>>
  /\ UNCHANGED <<tcpVars, genVars, wsVars>>

\* it = stream_entropy(x_iter, bins, window, dt, ema): a generator function,
\* so the call runs none of its body
SE_Call ==
  /\ se_new.pc = "none"
  /\ \E a \in AskedConfigs : se_new' = [NoBuild EXCEPT !.pc = "called", !.asked = a]
  /\ UNCHANGED <<cfg, ea_new, se_counts, se_ring, se_Hs, se_Y, se_ticks, se_out>>
  /\ UNCHANGED <<ea_window, ea_last, ea_prev, ea_prev2, ea_ticks, ea_out>>
  /\ UNCHANGED <<tcpVars, genVars, wsVars>>

\* the first next(it): the asserts run, then the set-up of lines 42-50; no
\* sample has been taken from x_iter when an assert fails
SE_First ==
  /\ se_new.pc = "called"
  /\ se_new' = IF SE_Asserts(se_new.asked)
                 THEN [se_new EXCEPT !.pc = "running", !.bins = se_new.asked.bins,
                                     !.window_n = se_new.asked.window]
                 ELSE [se_new EXCEPT !.pc = "raised"]
  /\ UNCHANGED <<cfg, ea_new, se_counts, se_ring, se_Hs, se_Y, se_ticks, se_out>>
  /\ UNCHANGED <<ea_window, ea_last, ea_prev, ea_prev2, ea_ticks, ea_out>>
  /\ UNCHANGED <<tcpVars, genVars, wsVars>>

\* =========================================================================
\*  The synthetic generator (test_stream_gen.py, Generator), datatype "123"
\* =========================================================================

\* Times are whole seconds; a regime deadline also carries the units in the
\* last place by which the float exceeds them.  uf is counted in tenths
\* (ufT = 10 * uf), values and biases are in thousandths.  The process-wide generator of the random
\* module is a deterministic function of its state: a linear congruential
\* generator over 0..RngMod-1 stands for it, and a draw r stands for the
\* float r / RngMod in [0,1).

GenIds == {1, 2}

NoValue == [t |-> 0, off |-> 0]

NoGen ==
  [made |-> FALSE, failed |-> FALSE, ufT |-> 0, clock |-> 0, runtime |-> 0,
   dtm |-> 0, seed |-> 0, t0 |-> 0, regime_bias |-> 0, next_regime |-> [s |-> 0, u |-> 0],
   count |-> 0, c_spikes |-> 0, c_switch |-> 0, c_drop |-> 0, c_dup |-> 0,
   last_emit_t |-> 0, pc |-> "none", now |-> 0, val |-> NoValue, held |-> 0]

\* the StreamConfig values tried: uf in {0, 0.5, 0.7, 1.0} and the invalid 1.5
GenConfigs ==
  [ufT : {0, 5, 7, 10, 15}, clock : {10}, runtime : {0, 20}, dtm : {3, 10},
   seed : {1, 2}]

\* nothing constructed yet, the clock reading w
InitGenAt(ids, w) ==
  /\ gen = [i \in GenIds |-> NoGen]
  /\ rng = 0 /\ wall = w /\ idle = 0 /\ polls = 0
  /\ insts = ids
  /\ solo = [i \in GenIds |-> [g |-> NoGen, r |-> 0]]

InitGenWith(ids) == InitGenAt(ids, 0)

\* random.seed(seed)
Seeded(seed) == (7 * seed) % RngMod

\* the state after one draw; the draw's value is the new state
Lcg(r) == (5 * r + 3) % RngMod

\* 2*r - 1 for a draw r, times RngMod: a value in [-1, 1)
Signed(r) == 2 * r - RngMod

\* _regime_interval: max(5.0, 30.0 * max(0.1, 1.0 - uf)).  In doubles
\* 1.0 - 0.7 is 0.30000000000000004 and 30.0 times it is 9.000000000000002,
\* one unit in the last place above 9; for the other uf tried it is exact.
regime_interval(ufT) ==
  [s |-> Max(5, (30 * Max(1, 10 - ufT)) \div 10), u |-> IF ufT = 7 THEN 1 ELSE 0]

\* now + interval in doubles, now a whole number of seconds: from FloatFine
\* seconds on a double has no room for the last place of a number below it
DeadlineAfter(now, iv) ==
  [s |-> now + iv.s, u |-> IF now + iv.s < FloatFine THEN iv.u ELSE 0]

\* now >= self.next_regime
DeadlineReached(now, d) == now > d.s \/ (now = d.s /\ d.u <= 0)

\* _maybe_regime_switch(now) on object g with the random state r
maybe_regime_switch(g, r, now) ==
  IF DeadlineReached(now, g.next_regime)
    THEN LET r1 == Lcg(r) IN
         [g |-> [g EXCEPT !.regime_bias = @ + (Signed(r1) * (500 + 100 * g.ufT)) \div RngMod,
                          !.next_regime = DeadlineAfter(now, regime_interval(g.ufT)),
                          !.c_switch = @ + 1],
          r |-> r1]
    ELSE [g |-> g, r |-> r]

\* _noise: random.gauss(0.0, 0.25 * uf)
noise(g, r) ==
  LET r1 == Lcg(r) IN [v |-> (Signed(r1) * 25 * g.ufT) \div RngMod, r |-> r1]

\* _spike: with probability uf^2 * 0.05, +-(2.0 + 8.0 * uf)
spike(g, r) ==
  LET r1 == Lcg(r) IN
    IF r1 * 2000 < g.ufT * g.ufT * RngMod
      THEN LET r2 == Lcg(r1) IN
           [g |-> [g EXCEPT !.c_spikes = @ + 1],
            v |-> (IF 2 * r2 < RngMod THEN -1 ELSE 1) * (2000 + 800 * g.ufT),
            r |-> r2]
      ELSE [g |-> g, v |-> 0, r |-> r1]

\* _maybe_dropout and _maybe_duplicate: random.random() < 0.01 * uf
Rare(g, r) == r * 1000 < g.ufT * RngMod

\* the value computed at time now, t seconds after t0:
\* _baseline_numeric(t) + regime_bias + _noise() + _spike(); the baseline
\* is a function of t alone, a value is the pair (t, what was added to it)
Produce(g0, r0, now, t) ==
  LET a == maybe_regime_switch(g0, r0, now)
      n == noise(a.g, a.r)
      k == spike(a.g, n.r)
  IN  [g |-> [k.g EXCEPT !.val = [t |-> t, off |-> a.g.regime_bias + n.v + k.v]],
       r |-> k.r]

\* nothing of the process is inside a generator's code
Quiet == \A i \in GenIds : gen[i].pc \notin {"top", "sleep"}

\* the object Generator(cfg) leaves when the clock reads w: set up first,
\* validated last, so an invalid cfg raises and leaves no object
Constructed(c, w) ==
  IF c.clock > 0 /\ c.runtime >= 0 /\ c.ufT >= 0 /\ c.ufT <= 10
    THEN [NoGen EXCEPT !.made = TRUE, !.ufT = c.ufT, !.clock = c.clock,
                       !.runtime = c.runtime, !.dtm = c.dtm,
                       !.seed = c.seed, !.t0 = w,
                       !.last_emit_t = w,
                       !.next_regime = DeadlineAfter(w, regime_interval(c.ufT)),
                       !.pc = "new"]
    ELSE [NoGen EXCEPT !.failed = TRUE, !.seed = c.seed]

\* Generator(cfg): seeds the module-level generator, sets the object up, and
\* only then validates cfg
G_New(i) ==
  /\ i \in insts /\ ~gen[i].made /\ ~gen[i].failed /\ Quiet
  /\ \E c \in GenConfigs :
         /\ gen' = [gen EXCEPT ![i] = Constructed(c, wall)]
         /\ rng' = Seeded(c.seed)
         /\ solo' = [solo EXCEPT ![i] = [g |-> Constructed(c, 0), r |-> Seeded(c.seed)]]
  /\ UNCHANGED <<wall, idle, polls, insts>>
  /\ UNCHANGED <<tcpVars, engVars, wsVars>>

\* next_for_module(step): the value is returned to the caller; self.count
\* is not touched
G_Poll(i) ==
  /\ gen[i].made /\ Quiet /\ polls < MaxPolls
  /\ \E step \in 0..MaxStep :
       LET t == step * gen[i].dtm
           p == Produce(gen[i], rng, gen[i].t0 + t, t)
           a == Produce(solo[i].g, solo[i].r, solo[i].g.t0 + t, t)
       IN  /\ gen' = [gen EXCEPT ![i] = [p.g EXCEPT !.held = @ + 1]] /\ rng' = p.r
           /\ solo' = [solo EXCEPT ![i] = [g |-> a.g, r |-> a.r]]
  /\ polls' = polls + 1
  /\ UNCHANGED <<wall, idle, insts>>
  /\ UNCHANGED <<tcpVars, engVars, wsVars>>

\* the consumer asks the iterator stream() for its first value
G_Begin(i) ==
  /\ gen[i].made /\ gen[i].pc = "new" /\ Quiet
  /\ gen' = [gen EXCEPT ![i].pc = "top"]
  /\ UNCHANGED <<rng, wall, idle, polls, insts>>
  /\ UNCHANGED <<solo, tcpVars, engVars, wsVars>>

\* a faulty test that lets the iteration at elapsed = runtime go on
RuntimeElapsedStrict(g, now) == g.runtime # 0 /\ now - g.t0 > g.runtime

\* if self.cfg.runtime and (now - self.t0) >= self.cfg.runtime
RuntimeElapsed(g, now) == g.runtime # 0 /\ now - g.t0 >= g.runtime

\* stream(): from the top of the loop to the first yield, or to the sleep
\* when the value is dropped, or to the return
G_Top(i) ==
  /\ gen[i].pc = "top"
  /\ LET g == gen[i] IN
       IF RuntimeElapsed(g, wall)
         THEN gen' = [gen EXCEPT ![i].pc = "ended", ![i].now = wall] /\ rng' = rng
         ELSE LET p  == Produce(g, rng, wall, wall - g.t0)
                  r1 == Lcg(p.r)
              IN  /\ rng' = r1
                  /\ gen' = [gen EXCEPT ![i] =
                       IF Rare(g, r1)
                         THEN [p.g EXCEPT !.now = wall, !.c_drop = @ + 1, !.pc = "sleep"]
                         ELSE [p.g EXCEPT !.now = wall, !.held = @ + 1, !.pc = "y1"]]
  /\ UNCHANGED <<wall, idle, polls, insts>>
  /\ UNCHANGED <<solo, tcpVars, engVars, wsVars>>

\* resumed after the first yield: count, then either yield the value again
\* or go to sleep
G_Resume1(i) ==
  /\ gen[i].pc = "y1" /\ Quiet
  /\ LET r1 == Lcg(rng) IN
       /\ rng' = r1
       /\ gen' = [gen EXCEPT ![i] =
            IF Rare(gen[i], r1)
              THEN [@ EXCEPT !.count = @ + 1, !.c_dup = @ + 1, !.held = @ + 1, !.pc = "y2"]
              ELSE [@ EXCEPT !.count = @ + 1, !.pc = "sleep"]]
  /\ UNCHANGED <<wall, idle, polls, insts>>
  /\ UNCHANGED <<solo, tcpVars, engVars, wsVars>>

\* resumed after the second yield
G_Resume2(i) ==
  /\ gen[i].pc = "y2" /\ Quiet
  /\ gen' = [gen EXCEPT ![i].count = @ + 1, ![i].pc = "sleep"]
  /\ UNCHANGED <<rng, wall, idle, polls, insts>>
  /\ UNCHANGED <<solo, tcpVars, engVars, wsVars>>

\* _sleep_to_next_tick(now)
G_Sleep(i) ==
  /\ gen[i].pc = "sleep" /\ wall < MaxWall
  /\ LET g      == gen[i]
         r1     == Lcg(rng)
         jitter == (Signed(r1) * g.ufT * 15 * g.clock) \div (1000 * RngMod)
         target == Max(g.last_emit_t + g.clock + jitter, g.now)
         woke   == Max(wall, target)
     IN  /\ rng' = r1
         /\ wall' = woke
         /\ gen' = [gen EXCEPT ![i].last_emit_t = woke, ![i].pc = "top"]
  /\ UNCHANGED <<idle, polls, insts>>
  /\ UNCHANGED <<solo, tcpVars, engVars, wsVars>>

\* a second passes while no generator code runs
W_Tick ==
  /\ Quiet /\ idle < MaxIdle
  /\ wall' = wall + 1 /\ idle' = idle + 1
  /\ UNCHANGED <<gen, rng, polls, insts>>
  /\ UNCHANGED <<solo, tcpVars, engVars, wsVars>>

G_NewAny == \E i \in GenIds : G_New(i)

G_PollAny == \E i \in GenIds : G_Poll(i)

G_BeginAny == \E i \in GenIds : G_Begin(i)

G_TopAny == \E i \in GenIds : G_Top(i)

G_Resume1Any == \E i \in GenIds : G_Resume1(i)

G_Resume2Any == \E i \in GenIds : G_Resume2(i)

G_SleepAny == \E i \in GenIds : G_Sleep(i)

\* =========================================================================
\*  The WebSocket stream server (ws/ee_stream_server.py)
\* =========================================================================

\* Coroutines run on one event loop: a step below is what one of them does
\* between two points where it may be suspended (an await of ws.send, of
\* gather, of the next inbound frame).  A send writes its frame to the
\* connection when it is called; what it may wait for is the drain after it.

\* the connections that may arrive in one run
WsIds == {1, 2}

\* module level: CLIENTS = set(), RING = deque(maxlen=200); no handler runs
InitWs ==
  /\ CLIENTS = {} /\ RING = <<>> /\ nsent = 0 /\ fan = {}
  /\ hpc = [c \in WsIds |-> "none"]
  /\ todo = [c \in WsIds |-> <<>>]
  /\ got = [c \in WsIds |-> <<>>]

\* handler(ws): CLIENTS.add(ws), list(RING), and the first ws.send(d) of
\* the replay loop, or with an empty ring the async for; no await lies
\* before that
WS_Connect(c) ==
  /\ hpc[c] = "none"
  /\ CLIENTS' = CLIENTS \cup {c}
  /\ IF RING = <<>>
       THEN /\ hpc' = [hpc EXCEPT ![c] = "listen"]
            /\ UNCHANGED <<todo, got>>
       ELSE /\ hpc' = [hpc EXCEPT ![c] = "replay"]
            /\ got' = [got EXCEPT ![c] = Append(@, Head(RING))]
            /\ todo' = [todo EXCEPT ![c] = Tail(RING)]
  /\ UNCHANGED <<RING, nsent, fan>>
  /\ UNCHANGED <<tcpVars, engVars, genVars>>

\* the ws.send(d) awaited in the replay loop returns and the loop sends the
\* next message
WS_Replay(c) ==
  /\ hpc[c] = "replay" /\ todo[c] # <<>>
  /\ got' = [got EXCEPT ![c] = Append(@, Head(todo[c]))]
  /\ todo' = [todo EXCEPT ![c] = Tail(@)]
  /\ UNCHANGED <<CLIENTS, RING, nsent, fan, hpc>>
  /\ UNCHANGED <<tcpVars, engVars, genVars>>

\* the last ws.send(d) of the replay loop returns: async for raw in ws
WS_Listen(c) ==
  /\ hpc[c] = "replay" /\ todo[c] = <<>>
  /\ hpc' = [hpc EXCEPT ![c] = "listen"]
  /\ UNCHANGED <<CLIENTS, RING, nsent, fan, todo, got>>
  /\ UNCHANGED <<tcpVars, engVars, genVars>>

\* the viewer goes away: the send or the async for ends with the
\* connection closed; finally: CLIENTS.discard(ws)
WS_Close(c) ==
  /\ hpc[c] \in {"replay", "listen"}
  /\ CLIENTS' = CLIENTS \ {c}
  /\ hpc' = [hpc EXCEPT ![c] = "closed"]
  /\ UNCHANGED <<RING, nsent, fan, todo, got>>
  /\ UNCHANGED <<tcpVars, engVars, genVars>>

\* broadcast(msg), called by loop() once the broadcast before has returned:
\* RING.append(data), then one ws.send(data) per member of list(CLIENTS)
\* handed to gather
WS_Broadcast ==
  /\ fan = {} /\ nsent < MaxMsgs
  /\ nsent' = nsent + 1
  /\ RING' = IF Len(RING) >= RingMaxLen THEN Append(Tail(RING), nsent + 1)
                                        ELSE Append(RING, nsent + 1)
  /\ fan' = CLIENTS
  /\ UNCHANGED <<CLIENTS, hpc, todo, got>>
  /\ UNCHANGED <<tcpVars, engVars, genVars>>

\* one of the ws.send(data) under gather runs; on a closed connection it
\* raises, which return_exceptions=True swallows
WS_Fan(c) ==
  /\ c \in fan
  /\ fan' = fan \ {c}
  /\ got' = IF hpc[c] = "closed" THEN got ELSE [got EXCEPT ![c] = Append(@, nsent)]
  /\ UNCHANGED <<CLIENTS, RING, nsent, hpc, todo>>
  /\ UNCHANGED <<tcpVars, engVars, genVars>>

\* =========================================================================
\*  Specifications
\* =========================================================================

vars == <<tcpVars, engVars, genVars, wsVars>>

\* the parts of the state a specification does not exercise stay as built
IdleTcp == InitTcpWith(0, {}) /\ srv = "down"

IdleEng ==
  /\ cfg = [bins |-> 2, window |-> 2, emaNum |-> 1, emaDen |-> 1, dtInv |-> 1]
  /\ se_counts = [i \in 0..1 |-> 0]
  /\ se_ring = <<>> /\ se_Hs = NoneH /\ se_Y = Zero /\ se_ticks = 0
  /\ se_out = NoOut
  /\ ea_window = <<>> /\ ea_last = NoneH /\ ea_prev = NoneH /\ ea_prev2 = NoneH
  /\ ea_ticks = 0 /\ ea_out = NoOut
  /\ ea_new = NoBuild /\ se_new = NoBuild

IdleGen == InitGenWith({})

\* ---- the transport: reader thread, tick loop, closer, server
NextTcp == Reader \/ Tick \/ Closer \/ Server

InitTcp == InitTcpWith(MaxLines, Lines) /\ IdleEng /\ IdleGen /\ InitWs

SpecTcp == InitTcp /\ [][NextTcp]_vars

InitTcpFew == InitTcpWith(FewLines, {LineNum, LineBlank}) /\ IdleEng /\ IdleGen /\ InitWs

\* next() is an ordinary call on the tick thread: once entered it runs on
SpecTcpTick == InitTcpFew /\ [][NextTcp]_vars /\ WF_vars(InNext)

\* the reader thread keeps being scheduled, and a server that accepted a
\* connection and has lines to send sends them
SpecTcpLive ==
  /\ InitTcpFew /\ [][NextTcp]_vars
  /\ WF_vars(Reader)
  /\ WF_vars(S_Send)

\* ---- the engines
NextEng == Eng_Tick \/ EA_UpdateNone

InitEngine == InitEng /\ IdleTcp /\ IdleGen /\ InitWs

SpecEng == InitEngine /\ [][NextEng]_vars

\* ---- the three constructors
NextBuild == EA_New \/ SE_Call \/ SE_First \/ G_NewAny

InitBuild == InitGenWith({1}) /\ IdleTcp /\ IdleEng /\ InitWs

SpecBuild == InitBuild /\ [][NextBuild]_vars

\* ---- one generator
NextGen ==
  \/ G_NewAny \/ G_PollAny \/ G_BeginAny \/ G_TopAny \/ G_Resume1Any
  \/ G_Resume2Any \/ G_SleepAny \/ W_Tick

InitGen == InitGenWith({1}) /\ IdleTcp /\ IdleEng /\ InitWs

SpecGen == InitGen /\ [][NextGen]_vars

\* ---- one generator iterated with stream() by a consumer that keeps asking
\* for the next value; every sleep returns
NextStream ==
  \/ G_NewAny \/ G_BeginAny \/ G_TopAny \/ G_Resume1Any \/ G_Resume2Any
  \/ G_SleepAny \/ W_Tick

SpecStream ==
  /\ InitGen /\ [][NextStream]_vars
  /\ WF_vars(G_TopAny) /\ WF_vars(G_Resume1Any) /\ WF_vars(G_Resume2Any)
  /\ WF_vars(G_SleepAny)

\* ---- two generators of one process, constructed and polled in any order
NextGenPair == G_NewAny \/ G_PollAny

InitGenPair == InitGenWith({1, 2}) /\ IdleTcp /\ IdleEng /\ InitWs

SpecGenPair == InitGenPair /\ [][NextGenPair]_vars

\* ---- one generator, polled only, in a process whose clock reads LateStart
NextGenLate == G_NewAny \/ G_PollAny \/ W_Tick

InitGenLate == InitGenAt({1}, LateStart) /\ IdleTcp /\ IdleEng /\ InitWs

SpecGenLate == InitGenLate /\ [][NextGenLate]_vars

\* ---- the stream server: viewers connecting and leaving while loop()
\* broadcasts
NextWs ==
  \/ \E c \in WsIds : WS_Connect(c)
  \/ \E c \in WsIds : WS_Replay(c)
  \/ \E c \in WsIds : WS_Listen(c)
  \/ \E c \in WsIds : WS_Close(c)
  \/ WS_Broadcast
  \/ \E c \in WsIds : WS_Fan(c)

InitServer == InitWs /\ IdleTcp /\ IdleEng /\ IdleGen

SpecWs == InitServer /\ [][NextWs]_vars

\* =========================================================================
\*  Properties of the transport
\* =========================================================================

\* C1: sample-and-hold.  Once a value has been received and the server has
\* closed the connection and sends nothing more, every next() returns the
\* value received last: not None, not an older value, and it never raises.
C1_HoldsLastValue ==
  /\ ~raised
  /\ retSilent => /\ ret.some
                  /\ ret.seq = arrived
                  /\ ret.val = coerce_value(ret.tok).val

\* C2: newest value wins.  No next() returns a value that arrived before a
\* value some earlier next() has already returned.
C2_NeverReplaysOlder == ret.some => ret.seq >= prevMaxSeq

\* the wire format: a bare decimal number, or {"value": <number>}
JsonHead == <<"{", "\"", "v", "a", "l", "u", "e", "\"", ":", " ">>

IsEnvelope(t) ==
  /\ Len(t) > Len(JsonHead) + 1
  /\ SubSeq(t, 1, Len(JsonHead)) = JsonHead
  /\ t[Len(t)] = "}"
  /\ IsFloat(SubSeq(t, Len(JsonHead) + 1, Len(t) - 1))

WireDecode(t) ==
  IF IsFloat(t) THEN Some(FloatMilli(t))
  ELSE IF IsEnvelope(t) THEN Some(FloatMilli(SubSeq(t, Len(JsonHead) + 1, Len(t) - 1)))
  ELSE NoneVal

\* C6: a line that is a bare number yields that number, a line that is
\* {"value": n} yields n, and any other line yields no value for any next().
C6_WireDecoding ==
  ret.some => /\ WireDecode(ret.tok).some
              /\ ret.val = WireDecode(ret.tok).val

\* C7: next() returns None while no value has ever been received, it never
\* raises, and a call under way returns by the tick thread's own steps,
\* wherever the reader thread is and even if it never moves again.
C7_NoneAndNeverBlocks ==
  /\ [](~raised)
  /\ []((nret > 0 /\ arrived = 0) => ~ret.some)
  /\ [](tpc # "idle" => <>(tpc = "idle"))

\* next() has returned None with the reader blocked in recv on a silent
\* connection and nothing received yet
C7_Witness ==
  /\ nret > 0 /\ arrived = 0 /\ ~ret.some
  /\ rpc = "recv" /\ cstate = "open" /\ wire = <<>> /\ sock = conn

\* everything the server has sent on the connection has become tokens
Delivered ==
  /\ cstate = "open" /\ sock = conn /\ sock \in open
  /\ wire = <<>> /\ ~HasLine(buf) /\ rpc = "recv"
  /\ linesLeft = 0 /\ owed = 0

\* C8: the reader retries without bound.  While stop is not requested the
\* reader thread never ends; after a connect failure, a recv error or a
\* server-side close it has closed its socket and is disconnected when it
\* backs off; from backoff it attempts to connect again; and once the
\* server stays available, what it sends ends up readable in the queue.
C8_RetriesForever ==
  /\ [](~stop => rpc # "done")
  /\ [](rpc \in Backoff => (sock = 0 /\ conn = 0 /\ open = {}))
  /\ []((rpc \in Backoff /\ ~stop) => <>(stop \/ rpc = "connect"))
  /\ []((srv = "stable" /\ ~stop) => <>(stop \/ Delivered))

\* C9: after close() the reader thread has left its loop and no socket the
\* source opened is still open.
C9_CleanStop == (rpc = "done" /\ cpc = "done") => open = {}

\* =========================================================================
\*  Properties of the engines
\* =========================================================================

\* C3: in stream_entropy, after the k-th tick the histogram counts sum to
\* min(k, window), which is also the number of samples held in the ring,
\* for every bins >= 2, window >= 2 and every input sequence.
C3_CountsSumToWindowFill ==
  /\ SumFn(se_counts) = Min(se_ticks, cfg.window)
  /\ SumFn(se_counts) = Len(se_ring)
  /\ \A b \in DOMAIN se_counts : se_counts[b] >= 0

\* C3 witness: the window has been full and its oldest sample evicted more
\* than once, into a histogram that still sums to the window length
C3_Witness ==
  /\ se_ticks >= cfg.window + 2
  /\ SumFn(se_counts) = cfg.window
  /\ Len(se_ring) = cfg.window
  /\ Occupied(se_counts) >= 2

\* C4: the first tick reports Y = 0 and the first two ticks report Z = 0,
\* for any input, in stream_entropy and in EntropyAccountant.update alike.
C4_DerivativesStartAtZero ==
  /\ se_ticks = 1 => NIsZero(se_out.Y)
  /\ se_ticks \in {1, 2} => NIsZero(se_out.Z)
  /\ ea_ticks = 1 => NIsZero(ea_out.Y)
  /\ ea_ticks \in {1, 2} => NIsZero(ea_out.Z)

\* C5: every smoothed entropy either engine outputs lies in [0,1], on every
\* tick and for any input; a window whose samples all fall into one bin has
\* entropy exactly 0, never a negative value.
C5_EntropyInUnitInterval ==
  /\ se_ticks >= 1 => (NLeq(Zero, se_out.H) /\ NLeq(se_out.H, One))
  /\ ea_ticks >= 1 => (NLeq(Zero, ea_out.H) /\ NLeq(ea_out.H, One))
  /\ (se_ticks >= 1 /\ Occupied(se_counts) = 1 /\ cfg.emaDen = 1) => NIsZero(se_out.H)

\* =========================================================================
\*  Properties of the generator
\* =========================================================================

\* C10: with uf = 0 the generator never perturbs its output: whatever the
\* number of ticks and the elapsed logical or wall-clock time, the spike,
\* dropout, duplicate and regime-switch counters stay 0, regime_bias stays
\* 0.0 and each value is the baseline at its time.
C10_ZeroUfNeverPerturbs ==
  \A i \in GenIds :
    (gen[i].made /\ gen[i].ufT = 0) =>
      /\ gen[i].c_spikes = 0 /\ gen[i].c_drop = 0 /\ gen[i].c_dup = 0
      /\ gen[i].c_switch = 0
      /\ gen[i].regime_bias = 0
      /\ gen[i].val.off = 0

\* C11: Generator instances in one process are independent: what a
\* Generator returns for its seed and its sequence of steps is what it
\* returns with no other instance constructed or polled in between.
C11_InstancesIndependent ==
  \A i \in GenIds :
    gen[i].made =>
      /\ gen[i].val = solo[i].g.val
      /\ gen[i].regime_bias = solo[i].g.regime_bias
      /\ gen[i].c_switch = solo[i].g.c_switch
      /\ gen[i].c_spikes = solo[i].g.c_spikes

\* C12: polling determinism.  Two runs that build a Generator from the
\* same config and seed and poll it with the same steps return the same
\* values and switch regime at the same steps, whatever the clock read when
\* each was constructed.
C12_PollingDeterministic ==
  \A i \in GenIds :
    gen[i].made =>
      /\ gen[i].val = solo[i].g.val
      /\ gen[i].c_switch = solo[i].g.c_switch

\* the arguments the specification calls valid for the entropy engine
ValidAsk(a) ==
  /\ a.bins >= 2
  /\ a.window >= 2
  /\ a.dtNum > 0
  /\ 0 < a.emaNum /\ a.emaNum <= a.emaDen

\* C13: a constructor given an invalid parameter fails: no EntropyAccountant
\* is built from invalid arguments (and none holds a value other than the one
\* passed), stream_entropy never gets past its set-up with invalid arguments,
\* and no Generator is made with uf outside [0,1], clock <= 0 or runtime < 0.
C13_InvalidConstructionFails ==
  /\ ea_new.pc = "built" =>
        /\ ValidAsk(ea_new.asked)
        /\ ea_new.bins = ea_new.asked.bins
  /\ se_new.pc = "running" => ValidAsk(se_new.asked)
  /\ \A i \in GenIds :
        gen[i].made =>
          /\ gen[i].ufT >= 0 /\ gen[i].ufT <= 10
          /\ gen[i].clock > 0 /\ gen[i].runtime >= 0

\* C14: the emitted counter is exact.  Whenever a consumer holds a value
\* (stream() is suspended at a yield, or next_for_module has returned) and
\* when stream() has ended, count equals the number of values handed out.
C14_EmittedCounterExact ==
  \A i \in GenIds :
    (gen[i].made /\ gen[i].pc \in {"new", "y1", "y2", "ended"}) =>
      gen[i].count = gen[i].held

\* =========================================================================
\*  Further properties of the entropy engines
\* =========================================================================

\* the occupied bins of a histogram all hold the same number of samples
EqualSpread(counts) ==
  \A i, j \in DOMAIN counts :
    (counts[i] > 0 /\ counts[j] > 0) => counts[i] = counts[j]

\* log(k) / log(B) for a histogram with k occupied bins out of B
LogRatio(counts, bins) == Num((Ln(Occupied(counts)) * HScale) \div Ln(bins), 0)

\* C15: the raw entropy is the Shannon entropy divided by log(B), B the
\* configured number of bins.  With ema = 1, a window spread equally over k
\* bins (k >= 2) gives H = log(k)/log(B): exactly 1 for k = B, less than 1
\* for k < B.
C15_NormalisedByConfiguredBins ==
  /\ (/\ se_ticks >= 1 /\ cfg.emaNum = cfg.emaDen
      /\ EqualSpread(se_counts) /\ Occupied(se_counts) >= 2) =>
        se_out.H = LogRatio(se_counts, cfg.bins)
  /\ (ea_ticks >= 1 /\ cfg.emaNum = cfg.emaDen /\ Len(ea_window) >= 2) =>
        \A c \in {EA_Counts(ea_window, cfg.bins)} :
          (EqualSpread(c) /\ Occupied(c) >= 2) => ea_out.H = LogRatio(c, cfg.bins)

\* stream_entropy's Y and Z (lines 78-82) computed on the smoothed series
\* EntropyAccountant holds: h the latest value, last and prev the two before
StreamY(h, last) == SE_Y(h, last, cfg)

StreamZ(h, last, prev) ==
  SE_Z(StreamY(h, last), IF last.some THEN StreamY(last, prev) ELSE Zero, last, cfg)

\* C16: on one smoothed series and dt, the derivative stage of
\* stream_entropy (Y = (H - H_prev)/dt, Z = (Y - Y_prev)/dt) and that of
\* EntropyAccountant.update (first and second difference of the series)
\* give the same Y and the same Z on every tick.
C16_SameDerivatives ==
  ea_ticks >= 1 =>
    /\ ea_out.Y = StreamY(ea_last, ea_prev)
    /\ ea_out.Z = StreamZ(ea_last, ea_prev, ea_prev2)

\* the histogram of a window counted afresh, sample by sample
Recount(ring, bins) ==
  [b \in 0..(bins - 1) |->
     Cardinality({k \in 1..Len(ring) : SE_Bin(ring[k], bins) = b})]

\* C17: in stream_entropy the incrementally maintained histogram equals a
\* full recount of the samples in the window after every tick; the index
\* decremented for a sample when it is evicted is the index incremented when
\* it came in; no count is negative and no index is outside 0..bins-1.
C17_HistogramMatchesWindow ==
  /\ DOMAIN se_counts = 0..(cfg.bins - 1)
  /\ se_counts = Recount(se_ring, cfg.bins)
  /\ \A k \in 1..Len(se_ring) :
        /\ SE_Bin(se_ring[k], cfg.bins) \in 0..(cfg.bins - 1)
        /\ SE_OldBin(se_ring[k], cfg.bins) = SE_Bin(se_ring[k], cfg.bins)
  /\ \A b \in DOMAIN se_counts : se_counts[b] >= 0

\* C17 witness: a sample at the upper edge (index clamped to bins-1) has
\* been counted, evicted, and another one is in the window after it
C17_Witness ==
  /\ se_ticks >= cfg.window + 2
  /\ Len(se_ring) = cfg.window
  /\ se_ring[Len(se_ring)] = Milli
  /\ se_ring[1] = 0
  /\ se_counts[cfg.bins - 1] = 1

\* =========================================================================
\*  Further properties of the generator
\* =========================================================================

\* C18: stream() with runtime > 0 terminates.  The iterator ends at the
\* first loop iteration that finds elapsed >= runtime and only there: every
\* value is yielded in an iteration that found elapsed < runtime, nothing
\* changes once it has ended, and with runtime = 0 it never ends.
C18_StreamTerminates ==
  /\ [](\A i \in GenIds :
          /\ gen[i].pc = "ended" =>
                (gen[i].runtime # 0 /\ gen[i].now - gen[i].t0 >= gen[i].runtime)
          /\ gen[i].pc \in {"y1", "y2", "sleep"} =>
                (gen[i].runtime = 0 \/ gen[i].now - gen[i].t0 < gen[i].runtime))
  /\ [][\A i \in GenIds : gen[i].pc = "ended" => gen'[i] = gen[i]]_vars
  /\ \A i \in GenIds :
        (gen[i].pc = "top" /\ gen[i].runtime # 0) ~> (gen[i].pc = "ended")

\* C18 witness: the iterator has ended in the iteration that found elapsed
\* equal to runtime, after handing out values
C18_Witness ==
  /\ gen[1].pc = "ended"
  /\ gen[1].now - gen[1].t0 = gen[1].runtime
  /\ gen[1].held >= 2

\* =========================================================================
\*  Further properties of the transport
\* =========================================================================

\* C19: the partial-line buffer never mixes connections.  Every token the
\* reader enqueues is a non-empty newline-terminated line, stripped, of the
\* byte stream of one connection, that is, one of the lines the server
\* sends; in particular the first token of a connection does not start
\* with bytes left over from the connection before.
C19_NoMixingAcrossConnections ==
  \A k \in 1..Len(q) : q[k].tok \in {Strip(l) : l \in srvLines}

\* =========================================================================
\*  Further properties of EntropyAccountant
\* =========================================================================

\* C20: EntropyAccountant.update with None or a non-finite value leaves the
\* window as it is and still advances the smoother: the raw entropy of the
\* unchanged window goes through the EMA, the history shifts by one, and
\* (H, Y, Z) is returned with Y and Z the differences of the shifted series.
\* (A step that advances EntropyAccountant alone is such an update.)
C20_UnusableValueAdvancesSmoother ==
  [][(ea_ticks' = ea_ticks + 1 /\ se_ticks' = se_ticks) =>
       /\ ea_window' = ea_window
       /\ ea_last'.some
       /\ ea_last' = SomeH(Ema(EA_Entropy(ea_window, cfg.bins), ea_last, cfg))
       /\ ea_prev' = ea_last /\ ea_prev2' = ea_prev
       /\ SomeH(ea_out'.H) = ea_last'
       /\ ea_out'.Y = EA_Y(ea_out'.H, ea_last, cfg)
       /\ ea_out'.Z = EA_Z(ea_out'.H, ea_last, ea_prev, cfg)]_vars

\* C20 witness: updates without a usable value have been made on a window
\* that holds samples in two bins, and the smoother has moved on
C20_Witness ==
  /\ ea_ticks >= se_ticks + 2
  /\ Len(ea_window) >= 2
  /\ ea_prev.some /\ ea_prev2.some
  /\ ~NIsZero(ea_out.Y)

\* =========================================================================
\*  Properties of the stream server
\* =========================================================================

\* C21: every viewer receives the messages in broadcast order and none
\* twice: what has been written to a connection is strictly increasing in
\* the order of broadcast, so no live message comes before an older
\* message of the warm-up replay.
C21_ViewerSeesBroadcastOrder ==
  \A c \in WsIds :
    \A k \in 1..(Len(got[c]) - 1) : got[c][k] < got[c][k + 1]

====
